---- MODULE Spec2Model ----
(***************************************************************************)
(* Particle-swarm facility-location optimizer                               *)
(* (src/src/optimization/facility_pso.py).                                  *)
(*                                                                          *)
(* Numbers are fixed point.  Coordinates and velocities are whole degrees,  *)
(* distances are hundredths of a kilometre, money is hundredths of a        *)
(* currency unit, the inertia weight is in thousandths.                     *)
(*                                                                          *)
(* Two specifications share the module:                                     *)
(*   SpecEval  calculate_total_cost executed statement by statement, twice  *)
(*             on the same arguments;                                       *)
(*   Spec      optimize_facility_locations_pso, one action per block of     *)
(*             the function, using calculate_total_cost as an operator.     *)
(***************************************************************************)
EXTENDS Integers, Sequences, FiniteSets, TLC

VARIABLES
    customers_df,             \* the customer table: a sequence of rows
    params,                   \* the keyword arguments of the run
    \* ---- locals of optimize_facility_locations_pso
    pc,                       \* position in the function
    now,                      \* time.time() - start_time, in seconds
    particles,
    velocities,
    personal_best_positions,
    personal_best_scores,
    global_best_view,         \* row of personal_best_positions that global_best_position is a view of (0: its own array)
    global_best_copy,         \* the array global_best_position owns when it is no view
    global_best_score,
    current_inertia_weight,
    history,
    completed_iterations,
    iteration,
    i,                        \* the particle the sweep is at
    result,                   \* the returned dict
    initial_particles,        \* the particles as drawn at line 100 (never read by the program)
    checked_at,               \* the elapsed time the last time check at line 128 saw (never read by the program)
    evaluated,                \* per particle, every <<position, score>> lines 111 and 150 computed (never read by the program)
    \* ---- locals of one calculate_total_cost call executed stepwise
    ev_pc,
    facility_locations,
    facility_usage,
    total_cost,
    assignments,
    ev_next,                  \* index of the next customer of the loop at line 34
    ev_returned,              \* the values returned by the calls made so far
    ev_given,                 \* the arguments as they were when the first call began
    \* ---- one browser session of the Streamlit application
    page,                     \* the page script the session is on
    uploaded_file,            \* what the page's st.file_uploader holds
    page_params,              \* params of line 155 of the PSO page: the slider values of the latest script run
    session_state,            \* st.session_state, shared by every page
    rendered,                 \* what the Results section showed in the latest script run
    stored_run                \* the page and n_iterations of the run that stored optimization_results (never read by the program)

vars == <<customers_df, params, pc, now, particles, velocities,
          personal_best_positions, personal_best_scores, global_best_view,
          global_best_copy, global_best_score, current_inertia_weight, history,
          completed_iterations, iteration, i, result, initial_particles, checked_at,
          evaluated, ev_pc, facility_locations, facility_usage, total_cost, assignments,
          ev_next, ev_returned, ev_given, page, uploaded_file, page_params,
          session_state, rendered, stored_run>>

optVars == <<pc, now, particles, velocities,
             personal_best_positions, personal_best_scores, global_best_view,
             global_best_copy, global_best_score, current_inertia_weight, history,
             completed_iterations, iteration, i, result, initial_particles, checked_at,
             evaluated>>

evVars == <<ev_pc, facility_locations, facility_usage, total_cost, assignments,
            ev_next, ev_returned, ev_given>>

pageVars == <<page, uploaded_file, page_params, session_state, rendered, stored_run>>

-----------------------------------------------------------------------------
(* Units and bounds *)

FixedPoint == 10 * 10            \* hundredths: money and kilometres
Milli == 10 * 10 * 10            \* thousandths: the inertia weight

MaxIterations == 2               \* n_iterations ranges over 0 .. MaxIterations
MaxClock == 2                    \* the clock saturates here ("MaxClock seconds or more")

penalty_factor == 1000000
NoFacility == -1                 \* None in the assignment dict

Min2(a, b) == IF a <= b THEN a ELSE b
Max2(a, b) == IF a >= b THEN a ELSE b
Abs(a) == IF a >= 0 THEN a ELSE -a

RECURSIVE SeqSum(_)
SeqSum(s) == IF s = <<>> THEN 0 ELSE Head(s) + SeqSum(Tail(s))

MinOfSeq(s) == CHOOSE m \in {s[k] : k \in 1..Len(s)} : \A k \in 1..Len(s) : m <= s[k]

-----------------------------------------------------------------------------
(* haversine_distance, in hundredths of a kilometre, on whole-degree points. *)
(* The values are those of the formula with R = 6371, rounded: the key is    *)
(* <<lower latitude, higher latitude, difference of the longitudes>>.        *)

HaversineTable ==
    [ t \in {<<la, lb, dl>> \in (0..2) \X (0..2) \X (0..2) : la <= lb} |->
        CASE t = <<0,0,0>> -> 0
          [] t = <<0,0,1>> -> 11119
          [] t = <<0,0,2>> -> 22239
          [] t = <<0,1,0>> -> 11119
          [] t = <<0,1,1>> -> 15725
          [] t = <<0,1,2>> -> 24863
          [] t = <<0,2,0>> -> 22239
          [] t = <<0,2,1>> -> 24863
          [] t = <<0,2,2>> -> 31447
          [] t = <<1,1,0>> -> 0
          [] t = <<1,1,1>> -> 11118
          [] t = <<1,1,2>> -> 22236
          [] t = <<1,2,0>> -> 11119
          [] t = <<1,2,1>> -> 15723
          [] t = <<1,2,2>> -> 24857
          [] t = <<2,2,0>> -> 0
          [] t = <<2,2,1>> -> 11113
          [] t = <<2,2,2>> -> 22225 ]

haversine_distance(lat1, lon1, lat2, lon2) ==
    HaversineTable[<<Min2(lat1, lat2), Max2(lat1, lat2), Abs(lon2 - lon1)>>]

-----------------------------------------------------------------------------
(* calculate_total_cost *)

NCustomers == Len(customers_df)
Facilities(fl) == 0 .. (Len(fl) - 1)

EmptyDict == [c \in {} |-> 0]
\* d[key] = value on a dict
Put(d, key, value) == [c \in DOMAIN d \cup {key} |-> IF c = key THEN value ELSE d[c]]

\* line 29
FreshUsageKept(fl) == IF DOMAIN facility_usage = Facilities(fl)
                      THEN facility_usage ELSE [f \in Facilities(fl) |-> 0]
FreshUsage(fl) == [f \in Facilities(fl) |-> 0]

\* lines 29-32: the locals at the start of a call
EvalStart(fl) ==
    [facility_usage |-> FreshUsage(fl), total_cost |-> 0, assignments |-> EmptyDict]

\* lines 36-37
Distances(fl, c) ==
    [f \in Facilities(fl) |->
        haversine_distance(customers_df[c].Latitude, customers_df[c].Longitude,
                           fl[f + 1][1], fl[f + 1][2])]

\* line 38: sorted() is stable, so equal distances keep index order
SortedFacilitiesUnstable(distances) ==
    LET n == Cardinality(DOMAIN distances)
        before(f) == {g \in DOMAIN distances :
                         \/ distances[g] < distances[f]
                         \/ distances[g] = distances[f] /\ g > f}
    IN  [k \in 1..n |-> CHOOSE f \in DOMAIN distances : Cardinality(before(f)) = k - 1]
SortedFacilities(distances) ==
    LET n == Cardinality(DOMAIN distances)
        before(f) == {g \in DOMAIN distances :
                         \/ distances[g] < distances[f]
                         \/ distances[g] = distances[f] /\ g < f}
    IN  [k \in 1..n |-> CHOOSE f \in DOMAIN distances : Cardinality(before(f)) = k - 1]

\* line 45: math.ceil(demand / units_per_load)
LoadsFloor(demand) == demand \div params.units_per_load
LoadsFloorPlusOne(demand) == demand \div params.units_per_load + 1
Loads(demand) == (demand + params.units_per_load - 1) \div params.units_per_load

\* line 42
FitsAlways(usage, demand) == TRUE
FitsWhenEmpty(usage, demand) == usage = 0 \/ usage + demand <= params.facility_capacity
Fits(usage, demand) == usage + demand <= params.facility_capacity

\* lines 43-49: the customer goes to facility f
Assign(st, c, f, distance) ==
    LET demand == customers_df[c].Demand IN
    [facility_usage |-> [st.facility_usage EXCEPT ![f] = @ + demand],
     total_cost |-> st.total_cost + distance * params.cost_per_km * Loads(demand),
     assignments |-> Put(st.assignments, c, f)]

\* lines 52-54
LeaveUnassignedFree(st, c) ==
    [facility_usage |-> st.facility_usage,
     total_cost |-> st.total_cost,
     assignments |-> Put(st.assignments, c, NoFacility)]
LeaveUnassigned(st, c) ==
    [facility_usage |-> st.facility_usage,
     total_cost |-> st.total_cost + penalty_factor * FixedPoint,
     assignments |-> Put(st.assignments, c, NoFacility)]

\* lines 40-54: walk the sorted facilities from position k
RECURSIVE WalkNoBreak(_, _, _, _, _)
WalkNoBreak(st, c, order, distances, k) ==
    IF k > Len(order)
    THEN IF c \in DOMAIN st.assignments THEN st ELSE LeaveUnassigned(st, c)
    ELSE IF Fits(st.facility_usage[order[k]], customers_df[c].Demand)
         THEN WalkNoBreak(Assign(st, c, order[k], distances[order[k]]),
                          c, order, distances, k + 1)
         ELSE WalkNoBreak(st, c, order, distances, k + 1)
WalkNearestOnly(st, c, order, distances, k) ==
    IF Fits(st.facility_usage[order[1]], customers_df[c].Demand)
    THEN Assign(st, c, order[1], distances[order[1]])
    ELSE LeaveUnassigned(st, c)
RECURSIVE Walk(_, _, _, _, _)
Walk(st, c, order, distances, k) ==
    IF k > Len(order)
    THEN LeaveUnassigned(st, c)
    ELSE IF Fits(st.facility_usage[order[k]], customers_df[c].Demand)
         THEN Assign(st, c, order[k], distances[order[k]])
         ELSE Walk(st, c, order, distances, k + 1)

\* lines 34-54: one pass of the loop body, for customer c
ProcessCustomer(st, fl, c) ==
    LET distances == Distances(fl, c)
    IN  Walk(st, c, SortedFacilities(distances), distances, 1)

RECURSIVE ProcessCustomers(_, _, _)
ProcessCustomers(st, fl, c) ==
    IF c > NCustomers THEN st
    ELSE ProcessCustomers(ProcessCustomer(st, fl, c), fl, c + 1)

\* lines 57-59
AddFixedCostsAssigned(st) ==
    LET used == {f \in DOMAIN st.facility_usage :
                    \E c \in DOMAIN st.assignments : st.assignments[c] = f}
    IN  [st EXCEPT !.total_cost = @ + Cardinality(used) * params.fixed_cost * FixedPoint]
AddFixedCosts(st) ==
    LET used == {f \in DOMAIN st.facility_usage : st.facility_usage[f] > 0}
    IN  [st EXCEPT !.total_cost = @ + Cardinality(used) * params.fixed_cost * FixedPoint]

\* floor of the square root of n, known to be at most hi
ISqrt(n, hi) == CHOOSE r \in 0..hi : r * r <= n /\ (r + 1) * (r + 1) > n

RECURSIVE SumOver(_, _)
SumOver(f, S) == IF S = {} THEN 0
                 ELSE LET x == CHOOSE y \in S : TRUE IN f[x] + SumOver(f, S \ {x})

\* np.std(usage_values) * 100, in hundredths:
\* std = sqrt(n * sum(u^2) - sum(u)^2) / n
UsageStdSampleTimes100(usage) ==
    LET n == Cardinality(DOMAIN usage)
        sq == [f \in DOMAIN usage |-> usage[f] * usage[f]]
        s == SumOver(usage, DOMAIN usage)
        d == n * SumOver(sq, DOMAIN usage) - s * s
    IN  (100 * FixedPoint * ISqrt((d * n) \div (n - 1), 2 * s)) \div n
UsageStdTimes100(usage) ==
    LET n == Cardinality(DOMAIN usage)
        sq == [f \in DOMAIN usage |-> usage[f] * usage[f]]
        s == SumOver(usage, DOMAIN usage)
        d == n * SumOver(sq, DOMAIN usage) - s * s
    IN  (100 * FixedPoint * ISqrt(d, s)) \div n

\* lines 62-65
AddUsageStd(st) ==
    LET usage_values == st.facility_usage
        n == Cardinality(DOMAIN usage_values)
        distinct == {usage_values[f] : f \in DOMAIN usage_values}
    IN  IF n > 1 /\ Cardinality(distinct) > 1
        THEN [st EXCEPT !.total_cost = @ + UsageStdTimes100(usage_values)]
        ELSE st

\* lines 18-67 as one function
calculate_total_cost(fl) ==
    AddUsageStd(AddFixedCosts(ProcessCustomers(EvalStart(fl), fl, 1)))

-----------------------------------------------------------------------------
(* calculate_total_cost executed statement by statement (SpecEval).         *)
(* A customer's identifier is its row number: CustomerID is unique.         *)

MaxCustomers == 2

GridPoints == {<<lat, lon>> : lat \in 0..1, lon \in 0..1}
DemandValues == {0, 40, 60}
EvalFacilityCounts == {1, 2}
EvalCapacities == {30, 100}
EvalUnitsPerLoad == {40, 100}

CustomerRows == [Demand : DemandValues, Latitude : 0..1, Longitude : 0..1]
EvalTables == UNION {[1..n -> CustomerRows] : n \in 1..MaxCustomers}
EvalParams == [facility_capacity : EvalCapacities, fixed_cost : {500},
               cost_per_km : {1}, units_per_load : EvalUnitsPerLoad]

-----------------------------------------------------------------------------
(* One browser session of the Streamlit application: the four optimizer
   pages under pages/ and the session state they share.  Streamlit runs the
   script of the current page from top to bottom after every interaction;
   st.session_state lives as long as the session, widget values (the uploaded
   file, the sliders) only as long as their page keeps drawing them. *)

PSOPage == "Facility_Location_PSO"
OptimizerPages == {"Facility_Location_MILP", PSOPage, "Hub_Location_MILP", "Vehicle_Routing"}
Pages == OptimizerPages \cup {"Home"}

\* "n_iterations": 100 of initial_params, and some stops of its range (10, 500, 10)
SliderDefault == 100
SliderValues == {10, 20, SliderDefault}
DefaultParams == [n_iterations |-> SliderDefault]

\* values of pulp.LpStatus
LpStatus == {"Optimal", "Infeasible", "Not Solved"}

\* the dict optimize_facility_locations_pso returns for n_iterations = n: the
\* loop completes between 0 and n iterations and history has a row for each
PSOResults(n) ==
    {[status |-> "Optimal", total_cost |-> "float", facility_locations |-> "DataFrame",
      assignments |-> "DataFrame", history |-> c, completed_iterations |-> c,
      total_time |-> "float"] : c \in 0..n}

MILPResults ==
    {[results |-> "DataFrame", transport |-> "DataFrame", total_cost |-> "float",
      status |-> s] : s \in LpStatus}

HubResults ==
    {[status |-> s, total_cost |-> "float", connections |-> "DataFrame",
      facilities |-> "DataFrame", solver_time |-> "float"] : s \in LpStatus}

VRPResults ==
    {[status |-> "SUCCESS", routes |-> "list", route_info |-> "list",
      total_distance |-> "float", total_time |-> "float"],
     [status |-> "FAILED", error |-> "No solution found"]}

\* what the optimizer called by page p can return
RunResults(p, prm) ==
    CASE p = PSOPage -> PSOResults(prm.n_iterations)
      [] p = "Facility_Location_MILP" -> MILPResults
      [] p = "Hub_Location_MILP" -> HubResults
      [] OTHER -> VRPResults

\* the calls wrapped in try/except: an exception leaves the session state alone
RunCanRaise(p) == p \in {"Hub_Location_MILP", "Vehicle_Routing"}

\* the status the Results section of page p takes for success
SuccessStatus(p) == IF p = "Vehicle_Routing" THEN "SUCCESS" ELSE "Optimal"

\* the keys of results the success branch of page p reads, in order
KeysRead(p) ==
    CASE p = PSOPage -> <<"total_cost", "completed_iterations", "total_time", "history",
                          "facility_locations", "assignments">>
      [] p = "Facility_Location_MILP" -> <<"total_cost", "results", "transport">>
      [] p = "Hub_Location_MILP" -> <<"total_cost", "facilities", "solver_time", "connections">>
      [] OTHER -> <<"total_distance", "total_time", "routes", "route_info">>

\* the script returned before the Results section, or the page has none
NotRendered == [kind |-> "none", expanded |-> FALSE, metric |-> <<>>, status |-> "",
                raised |-> FALSE]

\* the Results section of page p: kind is the branch taken, metric the x/y of
\* "Completed Iterations", status the status an error message reports, raised
\* whether the script died of a KeyError inside the section
ResultsSection(p, dfs, ss, prm) ==
    LET expanded == IF "show_results" \in DOMAIN ss THEN ss["show_results"] ELSE FALSE
        shown(kind, metric, status, raised) ==
            [kind |-> kind, expanded |-> expanded, metric |-> metric, status |-> status,
             raised |-> raised]
    IN  IF dfs = "none"
        THEN shown("warning", <<>>, "", FALSE)
        ELSE IF "optimization_results" \notin DOMAIN ss
        THEN shown("info", <<>>, "", FALSE)
        ELSE LET results == ss["optimization_results"]
                 keys == KeysRead(p)
                 missing == {n \in 1..Len(keys) : keys[n] \notin DOMAIN results}
                 \* the reads made before the first missing key
                 reads == IF missing = {} THEN Len(keys)
                          ELSE (CHOOSE n \in missing : \A m \in missing : n <= m) - 1
                 metric == IF p = PSOPage /\ reads >= 2
                           THEN <<results["completed_iterations"], prm.n_iterations>>
                           ELSE <<>>
                 \* set_index('iteration') on a DataFrame built from no rows
                 no_column == p = PSOPage /\ reads >= 4 /\ results["history"] = 0
             IN  IF results["status"] = SuccessStatus(p)
                 THEN shown("summary", metric, "", missing # {} \/ no_column)
                 ELSE shown("error", <<>>, results["status"], FALSE)

\* one run of the script of page p
Script(p, file, ss, prm) ==
    IF p \notin OptimizerPages \/ file = "invalid"
    THEN NotRendered
    ELSE ResultsSection(p, file, ss, prm)

\* no run has stored a result
NoRun == [page |-> "none"]

\* the session has just begun
PageIdle ==
    /\ page = "Home" /\ uploaded_file = "none" /\ page_params = DefaultParams
    /\ session_state = EmptyDict /\ rendered = NotRendered /\ stored_run = NoRun
\* the optimizer is not running
OptIdle ==
    /\ pc = "idle" /\ now = 0 /\ particles = <<>> /\ velocities = <<>>
    /\ personal_best_positions = <<>> /\ personal_best_scores = <<>>
    /\ global_best_view = 0 /\ global_best_copy = <<>> /\ global_best_score = 0
    /\ current_inertia_weight = 0 /\ history = <<>> /\ completed_iterations = 0
    /\ iteration = 0 /\ i = 0 /\ result = EmptyDict /\ initial_particles = <<>>
    /\ checked_at = 0 /\ evaluated = <<>>

\* no stepwise call is in progress
EvIdle ==
    /\ ev_pc = "idle" /\ facility_locations = <<>> /\ facility_usage = EmptyDict
    /\ total_cost = 0 /\ assignments = EmptyDict /\ ev_next = 0
    /\ ev_returned = <<>> /\ ev_given = <<>>

InitEval ==
    /\ customers_df \in EvalTables
    /\ params \in EvalParams
    /\ facility_locations \in UNION {[1..n -> GridPoints] : n \in EvalFacilityCounts}
    /\ ev_pc = "idle" /\ facility_usage = EmptyDict /\ total_cost = 0
    /\ assignments = EmptyDict /\ ev_next = 0 /\ ev_returned = <<>> /\ ev_given = <<>>
    /\ OptIdle
    /\ PageIdle

Locals == [facility_usage |-> facility_usage, total_cost |-> total_cost,
           assignments |-> assignments]

SetLocals(st) ==
    /\ facility_usage' = st.facility_usage
    /\ total_cost' = st.total_cost
    /\ assignments' = st.assignments

Arguments == [facility_locations |-> facility_locations,
              customers_df |-> customers_df, params |-> params]

\* lines 29-32: a call begins (the second call is given the same arguments)
EvBegin ==
    /\ ev_pc = "idle" /\ Len(ev_returned) < 2
    /\ SetLocals(EvalStart(facility_locations))
    /\ ev_next' = 1
    /\ ev_pc' = "customers"
    /\ ev_given' = IF ev_returned = <<>> THEN Arguments ELSE ev_given
    /\ UNCHANGED <<customers_df, params, facility_locations, ev_returned>>
    /\ UNCHANGED optVars
    /\ UNCHANGED pageVars

\* lines 34-54: one pass of the loop over the customers
EvCustomer ==
    /\ ev_pc = "customers" /\ ev_next <= NCustomers
    /\ SetLocals(ProcessCustomer(Locals, facility_locations, ev_next))
    /\ ev_next' = ev_next + 1
    /\ UNCHANGED <<customers_df, params, facility_locations, ev_pc, ev_returned, ev_given>>
    /\ UNCHANGED optVars
    /\ UNCHANGED pageVars

\* lines 57-59
EvFixedCosts ==
    /\ ev_pc = "customers" /\ ev_next > NCustomers
    /\ SetLocals(AddFixedCosts(Locals))
    /\ ev_pc' = "std"
    /\ UNCHANGED <<customers_df, params, facility_locations, ev_next, ev_returned, ev_given>>
    /\ UNCHANGED optVars
    /\ UNCHANGED pageVars

\* lines 62-65
EvUsageStd ==
    /\ ev_pc = "std"
    /\ SetLocals(AddUsageStd(Locals))
    /\ ev_pc' = "return"
    /\ UNCHANGED <<customers_df, params, facility_locations, ev_next, ev_returned, ev_given>>
    /\ UNCHANGED optVars
    /\ UNCHANGED pageVars

\* line 67
EvReturn ==
    /\ ev_pc = "return"
    /\ ev_returned' = Append(ev_returned,
                             [total_cost |-> total_cost, assignments |-> assignments])
    /\ ev_pc' = "idle"
    /\ UNCHANGED <<customers_df, params, facility_locations, facility_usage, total_cost,
                   assignments, ev_next, ev_given>>
    /\ UNCHANGED optVars
    /\ UNCHANGED pageVars

NextEval ==
    \/ EvBegin
    \/ EvCustomer
    \/ EvFixedCosts
    \/ EvUsageStd
    \/ EvReturn

SpecEval == InitEval /\ [][NextEval]_vars

-----------------------------------------------------------------------------
(* optimize_facility_locations_pso (Spec).                                  *)
(* A particle is a sequence of n_facilities points <<lat, lon>>; particle   *)
(* k of the source is particle k + 1 here.                                  *)

\* two customers a degree apart both ways: the box is a square
BoxTable ==
    << [Demand |-> 40, Latitude |-> 0, Longitude |-> 0],
       [Demand |-> 40, Latitude |-> 1, Longitude |-> 1] >>
\* two customers on one latitude: the box is a segment
LineTable ==
    << [Demand |-> 40, Latitude |-> 0, Longitude |-> 0],
       [Demand |-> 60, Latitude |-> 0, Longitude |-> 2] >>

BoxParams ==
    [n_facilities : {1}, facility_capacity : {100}, fixed_cost : {500},
     cost_per_km : {1}, units_per_load : {100}, n_particles : {2},
     n_iterations : {1}, max_run_time_seconds : {1},
     inertia_weight : {300, 400, 900}, cognitive_coefficient : {2}, social_coefficient : {2}]
LineParams ==
    [n_facilities : {1}, facility_capacity : {50}, fixed_cost : {500},
     cost_per_km : {1}, units_per_load : {50}, n_particles : {2},
     n_iterations : {0, MaxIterations}, max_run_time_seconds : {0, 1},
     inertia_weight : {900}, cognitive_coefficient : {2}, social_coefficient : {2}]

\* two facilities, one particle, on the segment
PairParams ==
    [n_facilities : {2}, facility_capacity : {50}, fixed_cost : {500},
     cost_per_km : {1}, units_per_load : {50}, n_particles : {1},
     n_iterations : {0}, max_run_time_seconds : {1},
     inertia_weight : {900}, cognitive_coefficient : {2}, social_coefficient : {2}]

\* the runs explored: <<customer table, keyword arguments>>
OptRuns == ({BoxTable} \X BoxParams) \cup ({LineTable} \X LineParams)
              \cup ({LineTable} \X PairParams)

\* np.random.uniform(-1, 1) at line 105: a degree either way
VelocityDraws == {-1, 1}
\* np.random.rand at lines 133 and 136, in halves: 0 and 0.5
RandHalves == {0, 1}
\* seconds a block of the function may take
TimeSteps == {0, 1}

Init ==
    /\ \E run \in OptRuns : customers_df = run[1] /\ params = run[2]
    /\ pc = "start" /\ now = 0 /\ particles = <<>> /\ velocities = <<>>
    /\ personal_best_positions = <<>> /\ personal_best_scores = <<>>
    /\ global_best_view = 0 /\ global_best_copy = <<>> /\ global_best_score = 0
    /\ current_inertia_weight = 0 /\ history = <<>> /\ completed_iterations = 0
    /\ iteration = 0 /\ i = 0 /\ result = EmptyDict /\ initial_particles = <<>>
    /\ checked_at = 0 /\ evaluated = <<>>
    /\ EvIdle
    /\ PageIdle

Elapse(d) == Min2(now + d, MaxClock)

Column(name) == {customers_df[c][name] : c \in 1..NCustomers}
SetMin(S) == CHOOSE m \in S : \A x \in S : m <= x
SetMax(S) == CHOOSE m \in S : \A x \in S : m >= x

\* lines 96-97
lat_bounds == <<SetMin(Column("Latitude")), SetMax(Column("Latitude"))>>
lon_bounds == <<SetMin(Column("Longitude")), SetMax(Column("Longitude"))>>

BoxPoints == {<<lat, lon>> : lat \in lat_bounds[1]..lat_bounds[2],
                              lon \in lon_bounds[1]..lon_bounds[2]}

\* np.argmin: the first index of the smallest value
ArgMax(scores) ==
    CHOOSE k \in 1..Len(scores) :
        /\ \A j \in 1..Len(scores) : scores[k] >= scores[j]
        /\ \A j \in 1..(k-1) : scores[j] # scores[k]
ArgMinLast(scores) ==
    CHOOSE k \in 1..Len(scores) :
        /\ \A j \in 1..Len(scores) : scores[k] <= scores[j]
        /\ \A j \in (k+1)..Len(scores) : scores[j] # scores[k]
ArgMin(scores) ==
    CHOOSE k \in 1..Len(scores) :
        /\ \A j \in 1..Len(scores) : scores[k] <= scores[j]
        /\ \A j \in 1..(k-1) : scores[j] # scores[k]

\* the array the name global_best_position refers to
GlobalBestOfParticles ==
    IF global_best_view # 0 THEN particles[global_best_view]
    ELSE global_best_copy
global_best_position ==
    IF global_best_view # 0 THEN personal_best_positions[global_best_view]
    ELSE global_best_copy

\* lines 87-124
Initialize ==
    /\ pc = "start"
    /\ \E drawn \in [1..params.n_particles -> [1..params.n_facilities -> BoxPoints]],
          v \in [1..params.n_particles ->
                   [1..params.n_facilities -> VelocityDraws \X VelocityDraws]] :
        LET scores == [k \in 1..params.n_particles |->
                          calculate_total_cost(drawn[k]).total_cost]
            global_best_index == ArgMin(scores)
        IN  /\ particles' = drawn
            /\ initial_particles' = drawn
            /\ evaluated' = [k \in 1..params.n_particles |-> {<<drawn[k], scores[k]>>}]
            /\ velocities' = v
            /\ personal_best_positions' = drawn
            /\ personal_best_scores' = scores
            /\ global_best_view' = global_best_index
            /\ global_best_score' = scores[global_best_index]
    /\ current_inertia_weight' = params.inertia_weight
    /\ history' = <<>>
    /\ completed_iterations' = 0
    /\ iteration' = 0
    /\ \E d \in TimeSteps : now' = Elapse(d)
    /\ pc' = "loop"
    /\ UNCHANGED <<customers_df, params, global_best_copy, i, result, checked_at>>
    /\ UNCHANGED evVars
    /\ UNCHANGED pageVars

\* line 126: range(n_iterations) is exhausted
LoopExhausted ==
    /\ pc = "loop" /\ iteration >= params.n_iterations
    /\ pc' = "final"
    /\ UNCHANGED <<customers_df, params, now, particles, velocities,
                   personal_best_positions, personal_best_scores, global_best_view,
                   global_best_copy, global_best_score, current_inertia_weight, history,
                   completed_iterations, iteration, i, result, initial_particles, checked_at,
                   evaluated>>
    /\ UNCHANGED evVars
    /\ UNCHANGED pageVars

\* line 128
TimeLimitExceededNever == FALSE
TimeLimitExceededOrStalled ==
    \/ now > params.max_run_time_seconds
    \/ iteration >= 1 /\ global_best_view # 0
TimeLimitExceededOrNoGain ==
    \/ now > params.max_run_time_seconds
    \/ history # <<>> /\ history[1].best_score = global_best_score
TimeLimitExceeded == now > params.max_run_time_seconds

\* the time check made before every particle as well
TimeLimitBreakAnywhere ==
    /\ \/ pc = "loop" /\ iteration < params.n_iterations
       \/ pc = "sweep" /\ i <= params.n_particles
    /\ TimeLimitExceeded
    /\ checked_at' = now
    /\ pc' = "final"
    /\ UNCHANGED <<customers_df, params, now, particles, velocities,
                   personal_best_positions, personal_best_scores, global_best_view,
                   global_best_copy, global_best_score, current_inertia_weight, history,
                   completed_iterations, iteration, i, result, initial_particles, evaluated>>
    /\ UNCHANGED evVars
    /\ UNCHANGED pageVars
\* lines 128-129: break
TimeLimitBreak ==
    /\ pc = "loop" /\ iteration < params.n_iterations
    /\ TimeLimitExceeded
    /\ checked_at' = now
    /\ pc' = "final"
    /\ UNCHANGED <<customers_df, params, now, particles, velocities,
                   personal_best_positions, personal_best_scores, global_best_view,
                   global_best_copy, global_best_score, current_inertia_weight, history,
                   completed_iterations, iteration, i, result, initial_particles, evaluated>>
    /\ UNCHANGED evVars
    /\ UNCHANGED pageVars

\* lines 126-131: the iteration starts
BeginIteration ==
    /\ pc = "loop" /\ iteration < params.n_iterations
    /\ ~TimeLimitExceeded
    /\ checked_at' = now
    /\ i' = 1
    /\ pc' = "sweep"
    /\ UNCHANGED <<customers_df, params, now, particles, velocities,
                   personal_best_positions, personal_best_scores, global_best_view,
                   global_best_copy, global_best_score, current_inertia_weight, history,
                   completed_iterations, iteration, result, initial_particles, evaluated>>
    /\ UNCHANGED evVars
    /\ UNCHANGED pageVars

\* a / b rounded to the nearest whole number, halves away from zero
RoundDiv(a, b) == IF a >= 0 THEN (2 * a + b) \div (2 * b)
                  ELSE -((2 * (-a) + b) \div (2 * b))

\* lines 132-140, one coordinate: u1, u2 are the two draws, in halves
\* the velocity zeroed when it takes the coordinate out of the box's range
NewVelocityStopped(v, x, pbest, gbest, u1, u2) ==
    LET moved == RoundDiv(current_inertia_weight * v, Milli)
                   + (params.cognitive_coefficient * u1 * (pbest - x)) \div 2
                   + (params.social_coefficient * u2 * (gbest - x)) \div 2
        lo == Min2(lat_bounds[1], lon_bounds[1])
        hi == Max2(lat_bounds[2], lon_bounds[2])
    IN  IF x + moved < lo \/ x + moved > hi THEN 0 ELSE moved
NewVelocity(v, x, pbest, gbest, u1, u2) ==
    RoundDiv(current_inertia_weight * v, Milli)
      + (params.cognitive_coefficient * u1 * (pbest - x)) \div 2
      + (params.social_coefficient * u2 * (gbest - x)) \div 2

\* lines 144-148, one coordinate
Clip(x, lo, hi) == IF x < lo THEN lo ELSE IF x > hi THEN hi ELSE x

ClipPointSwapped(pt) == <<Clip(pt[1], lon_bounds[1], lon_bounds[2]),
                          Clip(pt[2], lat_bounds[1], lat_bounds[2])>>
ClipPoint(pt) == <<Clip(pt[1], lat_bounds[1], lat_bounds[2]),
                   Clip(pt[2], lon_bounds[1], lon_bounds[2])>>

\* line 155
ImprovesAlways(score, best) == TRUE
ImprovesNever(score, best) == FALSE
ImprovesOrEqual(score, best) == score <= best
Improves(score, best) == score < best

\* lines 132-157: particle i moves and is scored
UpdateParticle ==
    /\ pc = "sweep" /\ i <= params.n_particles
    /\ \E v \in
          LET gbest == global_best_position IN
          {[f \in 1..params.n_facilities |->
               [d \in 1..2 |->
                   NewVelocity(velocities[i][f][d], particles[i][f][d],
                               personal_best_positions[i][f][d], gbest[f][d],
                               u1[f][d], u2[f][d])]] :
              u1 \in [1..params.n_facilities -> RandHalves \X RandHalves],
              u2 \in [1..params.n_facilities -> RandHalves \X RandHalves]} :
        LET x == [f \in 1..params.n_facilities |->
                    ClipPoint(<<particles[i][f][1] + v[f][1],
                                particles[i][f][2] + v[f][2]>>)]
            score == calculate_total_cost(x).total_cost
        IN  /\ velocities' = [velocities EXCEPT ![i] = v]
            /\ particles' = [particles EXCEPT ![i] = x]
            /\ evaluated' = [evaluated EXCEPT ![i] = @ \cup {<<x, score>>}]
            /\ IF Improves(score, personal_best_scores[i])
               THEN /\ personal_best_positions' = [personal_best_positions EXCEPT ![i] = x]
                    /\ personal_best_scores' = [personal_best_scores EXCEPT ![i] = score]
               ELSE UNCHANGED <<personal_best_positions, personal_best_scores>>
    /\ i' = i + 1
    /\ \E d \in TimeSteps : now' = Elapse(d)
    /\ UNCHANGED <<customers_df, params, pc, global_best_view, global_best_copy,
                   global_best_score, current_inertia_weight, history,
                   completed_iterations, iteration, result, initial_particles, checked_at>>
    /\ UNCHANGED evVars
    /\ UNCHANGED pageVars

\* line 164
DecayedInertiaNoFloor(w) == (w * 99) \div 100
DecayedInertia(w) == Max2(400, (w * 99) \div 100)

\* lines 159-173: after the sweep
EndIteration ==
    /\ pc = "sweep" /\ i > params.n_particles
    /\ LET best_particle_index == ArgMin(personal_best_scores)
           improved == Improves(personal_best_scores[best_particle_index], global_best_score)
           score == IF improved THEN personal_best_scores[best_particle_index]
                    ELSE global_best_score
       IN  /\ IF improved
              THEN /\ global_best_copy' = personal_best_positions[best_particle_index]
                   /\ global_best_view' = 0
              ELSE UNCHANGED <<global_best_copy, global_best_view>>
           /\ global_best_score' = score
           /\ history' = Append(history, [iteration |-> iteration, best_score |-> score,
                                          time |-> now])
    /\ current_inertia_weight' = DecayedInertia(current_inertia_weight)
    /\ completed_iterations' = iteration + 1
    /\ iteration' = iteration + 1
    /\ pc' = "loop"
    /\ UNCHANGED <<customers_df, params, now, particles, velocities,
                   personal_best_positions, personal_best_scores, i, result,
                   initial_particles, checked_at, evaluated>>
    /\ UNCHANGED evVars
    /\ UNCHANGED pageVars

\* line 183: f'FAC{i+1}'
FacilityIDFromZero(k) == <<"FAC", k - 1>>
FacilityID(k) == <<"FAC", k>>
None == <<>>

\* line 199
StatusByOutcome(final) ==
    IF \E c \in DOMAIN final.assignments : final.assignments[c] = NoFacility
    THEN "Infeasible"
    ELSE IF completed_iterations < params.n_iterations THEN "TimeLimit" ELSE "Optimal"
Status(final) == "Optimal"

\* lines 176-206
Finalize ==
    /\ pc = "final"
    /\ \E d \in TimeSteps :
        LET final == calculate_total_cost(global_best_position)
            total_time == Elapse(d)
        IN  /\ now' = total_time
            /\ result' =
                 [status |-> Status(final),
                  total_cost |-> final.total_cost,
                  facility_locations |->
                      [k \in 1..Len(global_best_position) |->
                          [FacilityID |-> FacilityID(k),
                           Latitude |-> global_best_position[k][1],
                           Longitude |-> global_best_position[k][2]]],
                  assignments |->
                      [c \in 1..NCustomers |->
                          [CustomerID |-> c,
                           FacilityID |-> IF final.assignments[c] # NoFacility
                                          THEN FacilityID(final.assignments[c] + 1)
                                          ELSE None,
                           Demand |-> customers_df[c].Demand]],
                  history |-> history,
                  completed_iterations |-> completed_iterations,
                  total_time |-> total_time]
    /\ pc' = "done"
    /\ UNCHANGED <<customers_df, params, particles, velocities,
                   personal_best_positions, personal_best_scores, global_best_view,
                   global_best_copy, global_best_score, current_inertia_weight, history,
                   completed_iterations, iteration, i, initial_particles, checked_at,
                   evaluated>>
    /\ UNCHANGED evVars
    /\ UNCHANGED pageVars

Next ==
    \/ Initialize
    \/ LoopExhausted
    \/ TimeLimitBreak
    \/ BeginIteration
    \/ UpdateParticle
    \/ EndIteration
    \/ Finalize

Spec == Init /\ [][Next]_vars

-----------------------------------------------------------------------------
(* Properties *)

\* the demand of the customers that dict asg assigns to facility f
AssignedDemand(asg, f) ==
    LET mine == {c \in DOMAIN asg : asg[c] = f}
        demand == [c \in mine |-> customers_df[c].Demand]
    IN  SumOver(demand, mine)

InBox(pt) == /\ lat_bounds[1] <= pt[1] /\ pt[1] <= lat_bounds[2]
             /\ lon_bounds[1] <= pt[2] /\ pt[2] <= lon_bounds[2]

InitialScores ==
    [k \in 1..Len(initial_particles) |->
        calculate_total_cost(initial_particles[k]).total_cost]

Running == pc \in {"loop", "sweep", "final", "done"}

\* ceil(demand / units_per_load), from its definition
CeilLoads(demand) ==
    CHOOSE n \in 0..demand :
        /\ n * params.units_per_load >= demand
        /\ (n = 0 \/ (n - 1) * params.units_per_load < demand)

TotalDemand == SeqSum([c \in 1..NCustomers |-> customers_df[c].Demand])

C1_HistoryNonIncreasing ==
    /\ \A k \in 1..(Len(history) - 1) : history[k + 1].best_score <= history[k].best_score
    /\ Len(history) >= 1 => history[1].best_score <= MinOfSeq(InitialScores)
\* C1: global_best_score never rises from one step of the run to the next; the
\* best_score values of successive iteration records are non-increasing and
\* the first record is not above the best initial particle score.
C1_GlobalBestNonIncreasing ==
    /\ [](Running => C1_HistoryNonIncreasing)
    /\ [][Running => global_best_score' <= global_best_score]_vars
\* two records, the second strictly better than the first
C1_Witness ==
    /\ Len(history) >= 2
    /\ history[2].best_score < history[1].best_score

\* C2: at every point of an evaluation, and in every returned assignment, the
\* demand assigned to a facility is at most facility_capacity.
C2_UsageWithinCapacity ==
    /\ ev_pc \in {"customers", "std", "return"} =>
          \A f \in Facilities(facility_locations) :
              /\ facility_usage[f] <= params.facility_capacity
              /\ AssignedDemand(assignments, f) <= params.facility_capacity
    /\ \A k \in 1..Len(ev_returned) : \A f \in Facilities(facility_locations) :
          AssignedDemand(ev_returned[k].assignments, f) <= params.facility_capacity
\* mid-loop, a customer was turned away from its nearest facility, which is full
C2_Witness ==
    /\ ev_pc = "customers" /\ ev_next = 3
    /\ Len(facility_locations) = 2
    /\ assignments[1] # NoFacility
    /\ assignments[2] \notin {NoFacility, assignments[1]}
    /\ SortedFacilities(Distances(facility_locations, 2))[1] = assignments[1]
\* the same for the assignment records the optimizer returns
FinalAssignmentWithinCapacity ==
    pc = "done" =>
        \A k \in 1..params.n_facilities :
            LET mine == {c \in 1..NCustomers :
                            result.assignments[c].FacilityID = FacilityID(k)}
                demand == [c \in mine |-> result.assignments[c].Demand]
            IN  SumOver(demand, mine) <= params.facility_capacity

\* C3: every particle position, every personal-best position, the global-best
\* position and every returned facility coordinate is inside the customer
\* bounding box, bounds included.
C3_InsideBox ==
    /\ Running =>
          /\ \A k \in 1..params.n_particles : \A f \in 1..params.n_facilities :
                /\ InBox(particles[k][f])
                /\ InBox(personal_best_positions[k][f])
          /\ \A f \in 1..params.n_facilities : InBox(global_best_position[f])
    /\ pc = "done" =>
          \A f \in 1..Len(result.facility_locations) :
              InBox(<<result.facility_locations[f].Latitude,
                      result.facility_locations[f].Longitude>>)
\* the particle just updated has a velocity longer than the box is wide, so
\* line 141 took it out of the box and the clamp brought it back
C3_Witness ==
    /\ pc = "sweep" /\ i > 1
    /\ \E f \in 1..params.n_facilities :
          \/ Abs(velocities[i - 1][f][1]) > lat_bounds[2] - lat_bounds[1]
          \/ Abs(velocities[i - 1][f][2]) > lon_bounds[2] - lon_bounds[1]

\* C4: a second call on the same arguments returns the same cost and the same
\* assignment, the arguments are as they were given, and every call starts
\* from zero usage, zero cost and an empty assignment.
C4_PureAndIdempotent ==
    /\ Len(ev_returned) = 2 => ev_returned[1] = ev_returned[2]
    /\ ev_given # <<>> => Arguments = ev_given
    /\ (ev_pc = "customers" /\ ev_next = 1) =>
          /\ \A f \in Facilities(facility_locations) : facility_usage[f] = 0
          /\ total_cost = 0
          /\ assignments = EmptyDict
\* two calls returned, and the first left a facility with usage
C4_Witness ==
    /\ Len(ev_returned) = 2
    /\ \E f \in Facilities(facility_locations) :
          AssignedDemand(ev_returned[1].assignments, f) > 0

C5_Bounded ==
    /\ completed_iterations <= params.n_iterations
    /\ pc = "sweep" => checked_at <= params.max_run_time_seconds
    /\ \A k \in 1..(Len(history) - 1) : history[k].time <= params.max_run_time_seconds
    /\ pc = "done" => result.completed_iterations <= params.n_iterations
\* an upper bound on the steps the run has left
C5_StepsLeft ==
    LET sweep == params.n_particles + 2
        left == (params.n_iterations - iteration) * sweep
    IN  CASE pc = "start" -> left + 3
          [] pc = "loop"  -> left + 2
          [] pc = "sweep" -> left + 2 - i
          [] pc = "final" -> 1
          [] pc = "done"  -> 0
\* the loop head and the end of a sweep can always take their step
C5_CanStep ==
    /\ pc = "loop" => ENABLED (LoopExhausted \/ TimeLimitBreak \/ BeginIteration)
    /\ pc = "sweep" => i \in 1..(params.n_particles + 1)
    /\ (pc = "sweep" /\ i > params.n_particles) => ENABLED EndIteration
\* C5: the loop terminates (every step lowers a bound on the steps left, and
\* the loop is never stuck); completed_iterations never exceeds
\* n_iterations; an iteration is only ever entered after a time check that
\* found the elapsed time within max_run_time_seconds, so every completed
\* iteration but the last ended within the budget.
C5_Terminates ==
    /\ [][C5_StepsLeft' < C5_StepsLeft]_vars
    /\ [](C5_StepsLeft >= 0)
    /\ [](C5_CanStep)
    /\ [](Running => C5_Bounded)
\* a run the time check cut short after an iteration overran the budget
C5_Witness ==
    /\ pc = "done"
    /\ result.completed_iterations >= 1
    /\ result.completed_iterations < params.n_iterations
    /\ result.history[Len(result.history)].time > params.max_run_time_seconds

C6_FirstCheckLeaves ==
    (/\ pc = "loop" /\ iteration = 0
     /\ (params.n_iterations = 0 \/ now > params.max_run_time_seconds))
    => (pc' = "final" /\ iteration' = 0)
C6_InitialBestReturned ==
    (pc = "done" /\ iteration = 0) =>
        /\ result.completed_iterations = 0
        /\ result.history = <<>>
        /\ result.total_cost = MinOfSeq(InitialScores)
        /\ \E k \in 1..Len(initial_particles) :
              /\ InitialScores[k] = MinOfSeq(InitialScores)
              /\ Len(result.facility_locations) = Len(initial_particles[k])
              /\ \A f \in 1..Len(initial_particles[k]) :
                    /\ result.facility_locations[f].Latitude = initial_particles[k][f][1]
                    /\ result.facility_locations[f].Longitude = initial_particles[k][f][2]
\* C6: when the first pass through the loop head finds n_iterations = 0 or the
\* elapsed time above max_run_time_seconds, the loop is left at once; a run
\* that never entered an iteration reports completed_iterations = 0 and an
\* empty history, and returns the position and the score of a lowest-scoring
\* initial particle.
C6_NoIterations ==
    /\ [][C6_FirstCheckLeaves]_vars
    /\ [](C6_InitialBestReturned)
\* the time check stopped the run before its first iteration, and the initial
\* particles did not all score the same
C6_Witness ==
    /\ pc = "done" /\ iteration = 0
    /\ params.n_iterations > 0
    /\ \E k \in 1..Len(initial_particles) : InitialScores[k] > result.total_cost

\* the scenario of C7: one facility of capacity 30, two customers of demand 40
C7_Scenario ==
    /\ Len(facility_locations) = 1
    /\ params.facility_capacity = 30
    /\ NCustomers = 2
    /\ \A c \in 1..NCustomers : customers_df[c].Demand = 40

Unassigned(asg) == {c \in DOMAIN asg : asg[c] = NoFacility}

\* C7 as stated: in the scenario every evaluation leaves exactly one customer
\* unassigned and costs at least 1,000,000.
C7_ExactlyOneUnassigned ==
    C7_Scenario =>
        \A k \in 1..Len(ev_returned) :
            /\ Cardinality(Unassigned(ev_returned[k].assignments)) = 1
            /\ ev_returned[k].total_cost >= penalty_factor * FixedPoint
\* C7 amended: in the scenario every evaluation leaves both customers
\* unassigned, each incurring the 1,000,000 penalty: the total cost is
\* 2,000,000, which is at least 1,000,000.
C7_BothUnassigned ==
    C7_Scenario =>
        \A k \in 1..Len(ev_returned) :
            /\ Unassigned(ev_returned[k].assignments) = 1..NCustomers
            /\ ev_returned[k].total_cost = 2 * penalty_factor * FixedPoint
            /\ ev_returned[k].total_cost >= penalty_factor * FixedPoint
\* an evaluation of the scenario has returned
C7_Witness == C7_Scenario /\ Len(ev_returned) >= 1

\* what C8 expects of a single facility that can hold every customer
C8_Expected(r) ==
    /\ \A c \in 1..NCustomers : r.assignments[c] = 0
    /\ r.total_cost =
          params.fixed_cost * FixedPoint
          + SeqSum([c \in 1..NCustomers |->
                      haversine_distance(customers_df[c].Latitude,
                                         customers_df[c].Longitude,
                                         facility_locations[1][1],
                                         facility_locations[1][2])
                      * params.cost_per_km * CeilLoads(customers_df[c].Demand)])
\* C8 as stated: with a single facility whose capacity is at least the total
\* demand, every customer is assigned to it and the total cost is fixed_cost
\* plus the transport costs.
C8_SingleFacilityCost ==
    (Len(facility_locations) = 1 /\ TotalDemand <= params.facility_capacity) =>
        \A k \in 1..Len(ev_returned) : C8_Expected(ev_returned[k])
\* C8 amended: the same, provided the total demand is positive (a facility
\* whose usage is zero is charged no fixed cost).
C8_SingleFacilityCostPositiveDemand ==
    (/\ Len(facility_locations) = 1
     /\ TotalDemand <= params.facility_capacity
     /\ TotalDemand > 0) =>
        \A k \in 1..Len(ev_returned) : C8_Expected(ev_returned[k])
\* the scenario of C8 has been evaluated: capacity 100, two customers of
\* demand 40 at distinct points, 100 units per load
C8_Witness ==
    /\ Len(facility_locations) = 1 /\ params.facility_capacity = 100
    /\ params.units_per_load = 100 /\ NCustomers = 2
    /\ \A c \in 1..NCustomers : customers_df[c].Demand = 40
    /\ <<customers_df[1].Latitude, customers_df[1].Longitude>>
          # <<customers_df[2].Latitude, customers_df[2].Longitude>>
    /\ Len(ev_returned) >= 1

\* C9: every run that returns reports status "Optimal".
C9_StatusOptimal == pc = "done" => result.status = "Optimal"
\* a run cut short by the time check whose final assignment leaves a customer
\* unassigned
C9_Witness ==
    /\ pc = "done"
    /\ result.completed_iterations < params.n_iterations
    /\ \E c \in 1..NCustomers : result.assignments[c].FacilityID = None

C10_WellFormed(asg, done) ==
    /\ DOMAIN asg = 1..done
    /\ \A c \in DOMAIN asg : asg[c] \in Facilities(facility_locations) \cup {NoFacility}
\* C10: the assignment has one entry for each customer processed, each a
\* facility index 0 .. n_facilities-1 or none, and each facility's usage is
\* the demand of exactly the customers whose entry names it.
C10_OneEntryPerCustomer ==
    /\ ev_pc \in {"customers", "std", "return"} =>
          /\ C10_WellFormed(assignments, ev_next - 1)
          /\ \A f \in Facilities(facility_locations) :
                facility_usage[f] = AssignedDemand(assignments, f)
    /\ \A k \in 1..Len(ev_returned) : C10_WellFormed(ev_returned[k].assignments, NCustomers)
\* two facilities have each taken one customer of positive demand
C10_Witness ==
    /\ Len(ev_returned) >= 1
    /\ Len(facility_locations) = 2
    /\ \E c, d \in 1..NCustomers :
          /\ ev_returned[1].assignments[c] = 0 /\ customers_df[c].Demand > 0
          /\ ev_returned[1].assignments[d] = 1 /\ customers_df[d].Demand > 0

\* the customers whose demand alone is above the capacity
Oversized == {c \in 1..NCustomers : customers_df[c].Demand > params.facility_capacity}

C11_PenaltyAdded ==
    (ev_pc = "customers" /\ ev_next \in Oversized) =>
        /\ assignments' = Put(assignments, ev_next, NoFacility)
        /\ total_cost' = total_cost + penalty_factor * FixedPoint
        /\ facility_usage' = facility_usage
C11_NeverAssigned ==
    /\ ev_pc \in {"customers", "std", "return"} =>
          /\ \A c \in Oversized \cap DOMAIN assignments : assignments[c] = NoFacility
          /\ total_cost >= Cardinality(Oversized \cap DOMAIN assignments)
                              * penalty_factor * FixedPoint
    /\ \A k \in 1..Len(ev_returned) :
          /\ \A c \in Oversized : ev_returned[k].assignments[c] = NoFacility
          /\ ev_returned[k].total_cost >= Cardinality(Oversized) * penalty_factor * FixedPoint
\* C11: a customer whose demand alone exceeds facility_capacity is unassigned
\* in every evaluation, wherever the facilities are and wherever it stands in
\* the customer order, and its turn adds the 1,000,000 penalty to the cost.
C11_OversizedUnassigned ==
    /\ [][C11_PenaltyAdded]_vars
    /\ [](C11_NeverAssigned)
\* an oversized customer came second, after a customer that was assigned, with
\* two facilities at distinct points, and the evaluation returned
C11_Witness ==
    /\ Len(ev_returned) >= 1
    /\ Len(facility_locations) = 2 /\ facility_locations[1] # facility_locations[2]
    /\ NCustomers = 2 /\ Oversized = {2}
    /\ ev_returned[1].assignments[1] # NoFacility

\* the one final evaluation of line 176
C12_FinalEvaluation == calculate_total_cost(global_best_position)
\* C12: the result has exactly n_facilities facility records, FAC1..FACn in the
\* order of the global-best particle's coordinates, and one assignment record
\* per customer with its id, its demand and none or FAC(k+1) for the facility
\* index k that one final evaluation of the global-best position gave it;
\* every FacilityID of an assignment record that is not none is the
\* FacilityID of a facility record.
C12_ResultRecords ==
    pc = "done" =>
        /\ Len(result.facility_locations) = params.n_facilities
        /\ \A k \in 1..params.n_facilities :
              result.facility_locations[k] =
                  [FacilityID |-> <<"FAC", k>>,
                   Latitude |-> global_best_position[k][1],
                   Longitude |-> global_best_position[k][2]]
        /\ Len(result.assignments) = NCustomers
        /\ \A c \in 1..NCustomers :
              LET k == C12_FinalEvaluation.assignments[c]
                  rec == result.assignments[c]
              IN  /\ rec.CustomerID = c
                  /\ rec.Demand = customers_df[c].Demand
                  /\ rec.FacilityID = IF k = NoFacility THEN None ELSE <<"FAC", k + 1>>
                  /\ rec.FacilityID # None =>
                        \E f \in 1..Len(result.facility_locations) :
                            result.facility_locations[f].FacilityID = rec.FacilityID
        /\ result.total_cost = C12_FinalEvaluation.total_cost
\* two facilities at distinct points: the first customer went to the second
\* facility and the second customer has none
C12_Witness ==
    /\ pc = "done" /\ params.n_facilities = 2
    /\ result.facility_locations[1].Longitude # result.facility_locations[2].Longitude
    /\ result.assignments[1].FacilityID = FacilityID(2)
    /\ result.assignments[2].FacilityID = None

\* the lowest score among evaluations, a set of <<position, score>>
C13_LowestScore(evaluations) ==
    CHOOSE m \in {e[2] : e \in evaluations} : \A e \in evaluations : m <= e[2]
C13_AllEvaluated == UNION {evaluated[k] : k \in 1..Len(evaluated)}
\* C13: at every iteration boundary each particle's personal-best score is the
\* lowest score of the positions that particle was evaluated at, its initial
\* position included, and its personal-best position is one of them with that
\* score; the global-best score is the lowest over all particles and all
\* positions evaluated so far, and the global-best position is one of them
\* with that score.
C13_BestsAreMinima ==
    pc \in {"loop", "final", "done"} =>
        /\ \A k \in 1..params.n_particles :
              /\ personal_best_scores[k] = C13_LowestScore(evaluated[k])
              /\ <<personal_best_positions[k], personal_best_scores[k]>> \in evaluated[k]
        /\ global_best_score = C13_LowestScore(C13_AllEvaluated)
        /\ <<global_best_position, global_best_score>> \in C13_AllEvaluated
\* at a boundary after an iteration: a particle has been at two positions and
\* is no longer at its best one, and the global best was replaced
C13_Witness ==
    /\ pc = "loop" /\ iteration >= 1
    /\ global_best_view = 0
    /\ \E k \in 1..params.n_particles :
          /\ Cardinality(evaluated[k]) >= 2
          /\ particles[k] # personal_best_positions[k]

C14_LoopLeft ==
    /\ (pc = "loop" /\ pc' # "loop") =>
          \/ pc' = "sweep" /\ iteration < params.n_iterations
                           /\ now <= params.max_run_time_seconds
          \/ pc' = "final" /\ iteration >= params.n_iterations
          \/ pc' = "final" /\ now > params.max_run_time_seconds
    /\ (pc = "sweep" /\ pc' # "sweep") => pc' = "loop"
C14_StoppedBecause ==
    pc \in {"final", "done"} =>
        /\ \/ completed_iterations = params.n_iterations
           \/ checked_at > params.max_run_time_seconds
        /\ checked_at <= params.max_run_time_seconds =>
              completed_iterations = params.n_iterations
\* C14: the loop is left only when n_iterations iterations have completed or
\* when the time check at the start of an iteration finds the elapsed time
\* above max_run_time_seconds; when no time check finds the budget exceeded,
\* completed_iterations is n_iterations exactly, whether or not the global
\* best still improves.
C14_OnlyTimeOrCount ==
    /\ [][C14_LoopLeft]_vars
    /\ [](C14_StoppedBecause)
\* a run of two iterations that completed both although the global best never
\* improved on the best initial particle
C14_Witness ==
    /\ pc = "done" /\ params.n_iterations >= 2
    /\ result.completed_iterations = params.n_iterations
    /\ \A k \in 1..Len(result.history) :
          result.history[k].best_score = MinOfSeq(InitialScores)
    /\ \E k \in 1..Len(initial_particles) : InitialScores[k] > MinOfSeq(InitialScores)

\* C15: during a sweep the global-best position that the particles read in
\* their social term is frozen: no particle's update changes it while another
\* particle of the same sweep has still to read it, also while
\* global_best_position refers to the row of personal_best_positions chosen
\* at initialization; it changes only in the aggregation after the sweep.
C15_FrozenDuringSweep ==
    [][(pc = "sweep" /\ pc' = "sweep" /\ i' <= params.n_particles) =>
           global_best_position' = global_best_position]_vars
\* the first particle held the initial global best and has just improved its
\* personal best: the second particle is about to read the position the
\* first one wrote in this sweep
C15_Witness ==
    /\ pc = "sweep" /\ i = 2 /\ iteration = 0
    /\ global_best_view = 1
    /\ personal_best_positions[1] # initial_particles[1]
    /\ global_best_position = personal_best_positions[1]
    /\ global_best_position # initial_particles[1]

\* the score line 150 has just computed for particle i
C16_NewScore == (CHOOSE e \in evaluated'[i] : e[1] = particles'[i])[2]
C16_PersonalBest ==
    /\ \A k \in 1..Len(personal_best_scores) :
          (\/ personal_best_scores'[k] # personal_best_scores[k]
           \/ personal_best_positions'[k] # personal_best_positions[k]) =>
              /\ pc = "sweep" /\ k = i
              /\ C16_NewScore < personal_best_scores[k]
              /\ personal_best_scores'[k] = C16_NewScore
              /\ personal_best_positions'[k] = particles'[k]
    /\ (pc = "sweep" /\ i <= params.n_particles
           /\ C16_NewScore >= personal_best_scores[i]) =>
          /\ personal_best_scores' = personal_best_scores
          /\ personal_best_positions' = personal_best_positions
C16_GlobalBest ==
    /\ (pc # "start" /\ global_best_score' # global_best_score) =>
          /\ pc = "sweep" /\ pc' = "loop"
          /\ MinOfSeq(personal_best_scores) < global_best_score
          /\ global_best_score' = MinOfSeq(personal_best_scores)
    /\ (pc = "sweep" /\ pc' = "loop"
           /\ MinOfSeq(personal_best_scores) >= global_best_score) =>
          /\ global_best_score' = global_best_score
          /\ global_best_position' = global_best_position
\* C16: a personal-best position and score are overwritten only by a newly
\* evaluated score strictly below the personal-best score, and the global-best
\* score only by a best personal-best score strictly below it; an equal or
\* higher score leaves them as they were.
C16_StrictlyLowerOnly == [][C16_PersonalBest /\ C16_GlobalBest]_vars
\* the first particle has just been scored, away from its personal-best
\* position, at exactly its personal-best score
C16_Witness ==
    /\ pc = "sweep" /\ i = 2
    /\ particles[1] # personal_best_positions[1]
    /\ <<particles[1], personal_best_scores[1]>> \in evaluated[1]
    /\ personal_best_positions[1] = initial_particles[1]

\* the usage of facility f when the turn of customer c comes: the demand of
\* the customers before c in the input order that asg gives to f
UsageAtTurn(asg, c, f) ==
    LET mine == {b \in DOMAIN asg : b < c /\ asg[b] = f}
        demand == [b \in mine |-> customers_df[b].Demand]
    IN  SumOver(demand, mine)
\* the facilities with room for customer c at its turn
FeasibleAtTurn(asg, c) ==
    {f \in Facilities(facility_locations) :
        UsageAtTurn(asg, c, f) + customers_df[c].Demand <= params.facility_capacity}
C17_NearestFeasible(asg) ==
    \A c \in DOMAIN asg :
        asg[c] # NoFacility =>
            LET distances == Distances(facility_locations, c)
                feasible == FeasibleAtTurn(asg, c)
                mine == distances[asg[c]]
            IN  /\ asg[c] \in feasible
                /\ \A g \in feasible :
                      \/ mine < distances[g]
                      \/ mine = distances[g] /\ asg[c] <= g
\* C17: customers are processed in input order, and each assigned customer
\* has the nearest of the facilities whose usage at its turn plus its demand
\* is within the capacity; of two such facilities at the same distance it has
\* the one with the lower index.
C17_InputOrderNearestFirst ==
    /\ ev_pc = "customers" =>
          /\ DOMAIN assignments = 1..(ev_next - 1)
          /\ C17_NearestFeasible(assignments)
    /\ \A asg \in {ev_returned[k].assignments : k \in 1..Len(ev_returned)} :
          C17_NearestFeasible(asg)
\* two facilities at distinct points, both with room and as far from the
\* second customer, after the first customer took its place
C17_Witness ==
    /\ Len(ev_returned) >= 1 /\ NCustomers = 2
    /\ Len(facility_locations) = 2 /\ facility_locations[1] # facility_locations[2]
    /\ customers_df[1].Demand > 0 /\ customers_df[2].Demand > 0
    /\ ev_returned[1].assignments[1] # NoFacility
    /\ FeasibleAtTurn(ev_returned[1].assignments, 2) = {0, 1}
    /\ Distances(facility_locations, 2)[0] = Distances(facility_locations, 2)[1]
    /\ ev_returned[1].assignments[2] = 0

\* the transport cost of the customers that asg assigns, from lines 45-47
TransportCost(asg) ==
    LET assigned == {c \in DOMAIN asg : asg[c] # NoFacility}
        cost == [c \in assigned |->
                    Distances(facility_locations, c)[asg[c]]
                      * params.cost_per_km * CeilLoads(customers_df[c].Demand)]
    IN  SumOver(cost, assigned)
C18_IffNoRoom(asg) ==
    \A c \in DOMAIN asg : asg[c] = NoFacility <=> FeasibleAtTurn(asg, c) = {}
C18_PenaltyPart ==
    ev_pc = "customers" =>
        /\ C18_IffNoRoom(assignments)
        /\ total_cost = TransportCost(assignments)
                          + Cardinality(Unassigned(assignments)) * penalty_factor * FixedPoint
C18_UnassignedStep ==
    (ev_pc = "customers" /\ ev_next <= NCustomers
        /\ assignments'[ev_next] = NoFacility) =>
        /\ total_cost' = total_cost + penalty_factor * FixedPoint
        /\ facility_usage' = facility_usage
\* C18: a customer is left unassigned exactly when, at its turn in the input
\* order, no facility has usage + demand <= capacity; its turn adds 1,000,000
\* to the cost and nothing else, and leaves every usage as it was, so that
\* after the customers the cost is the transport cost of the assigned
\* customers plus 1,000,000 for each unassigned one.
C18_UnassignedIffNoRoom ==
    /\ [][C18_UnassignedStep]_vars
    /\ [](C18_PenaltyPart)
    /\ [](\A k \in 1..Len(ev_returned) : C18_IffNoRoom(ev_returned[k].assignments))
\* one facility: the first customer was assigned to it, at a cost, and the
\* second, which would fit it empty, found no room
C18_Witness ==
    /\ ev_pc = "customers" /\ ev_next = 3
    /\ Len(facility_locations) = 1
    /\ assignments[1] = 0 /\ assignments[2] = NoFacility
    /\ customers_df[2].Demand <= params.facility_capacity
    /\ TransportCost(assignments) > 0

\* the facilities that the finished customer loop left with usage above zero
C19_Used == {f \in Facilities(facility_locations) : facility_usage[f] > 0}
C19_FixedCostStep ==
    (ev_pc = "customers" /\ ev_pc' = "std") =>
        /\ total_cost' = total_cost + Cardinality(C19_Used) * params.fixed_cost * FixedPoint
        /\ facility_usage' = facility_usage
C19_AfterFixedCosts ==
    ev_pc = "std" =>
        total_cost = TransportCost(assignments)
                       + Cardinality(Unassigned(assignments)) * penalty_factor * FixedPoint
                       + Cardinality({f \in Facilities(facility_locations) :
                                         AssignedDemand(assignments, f) > 0})
                           * params.fixed_cost * FixedPoint
\* C19: fixed_cost is added exactly once for each facility whose final usage
\* is above zero and not at all for a facility with usage zero, also when
\* customers (of zero demand) are assigned to it.
C19_FixedCostPerUsedFacility ==
    /\ [][C19_FixedCostStep]_vars
    /\ [](C19_AfterFixedCosts)
\* of two facilities one has a customer of positive demand and the other only
\* a customer of zero demand: the fixed cost was charged once
C19_Witness ==
    /\ ev_pc = "std" /\ Len(facility_locations) = 2 /\ NCustomers = 2
    /\ \E c, d \in 1..NCustomers :
          /\ assignments[c] # NoFacility /\ customers_df[c].Demand > 0
          /\ assignments[d] \notin {NoFacility, assignments[c]}
          /\ customers_df[d].Demand = 0
    /\ total_cost = TransportCost(assignments) + params.fixed_cost * FixedPoint

\* 100 x the population standard deviation of the usages, in hundredths: of
\* two values it is half their distance, of one value it is zero
C20_BalancePenalty ==
    IF Len(facility_locations) = 2
    THEN (100 * FixedPoint * Abs(facility_usage[0] - facility_usage[1])) \div 2
    ELSE 0
C20_Applies ==
    /\ Len(facility_locations) >= 2
    /\ \E f, g \in Facilities(facility_locations) : facility_usage[f] # facility_usage[g]
C20_BalanceStep ==
    (ev_pc = "std" /\ ev_pc' = "return") =>
        /\ C20_Applies => /\ total_cost' = total_cost + C20_BalancePenalty
                          /\ total_cost' > total_cost
        /\ ~C20_Applies => total_cost' = total_cost
        /\ facility_usage' = facility_usage
C20_Returned ==
    ev_pc = "return" =>
        total_cost = TransportCost(assignments)
                       + Cardinality(Unassigned(assignments)) * penalty_factor * FixedPoint
                       + Cardinality(C19_Used) * params.fixed_cost * FixedPoint
                       + (IF C20_Applies THEN C20_BalancePenalty ELSE 0)
\* C20: the load-balance penalty, 100 x the population standard deviation of
\* the usages, is added exactly when there are at least two facilities and
\* their usages are not all equal; with one facility or with equal usages
\* (all zero included) nothing is added.
C20_LoadBalancePenalty ==
    /\ [][C20_BalanceStep]_vars
    /\ [](C20_Returned)
\* two facilities used unequally: the penalty is in the cost
C20_Witness ==
    /\ ev_pc = "return" /\ Len(facility_locations) = 2
    /\ facility_usage[0] > 0 /\ facility_usage[1] > facility_usage[0]
    /\ total_cost = TransportCost(assignments) + 2 * params.fixed_cost * FixedPoint
                      + 50 * FixedPoint * (facility_usage[1] - facility_usage[0])
\* the cases without a penalty: equal positive usages, and every customer
\* unassigned
C20_SkippedEqual ==
    /\ ev_pc = "return" /\ Len(facility_locations) = 2
    /\ facility_usage[0] > 0 /\ facility_usage[1] = facility_usage[0]
C20_SkippedAllZero ==
    /\ ev_pc = "return" /\ Len(facility_locations) = 2
    /\ Unassigned(assignments) = 1..NCustomers
    /\ total_cost = NCustomers * penalty_factor * FixedPoint

\* the customer whose turn it is has just been assigned to a facility
C21_Assigned ==
    /\ ev_pc = "customers" /\ ev_next <= NCustomers
    /\ assignments'[ev_next] # NoFacility
\* the loads the step charged: the cost it added, per kilometre and per unit
\* of cost_per_km (only asked when the distance is not zero)
C21_Distance == Distances(facility_locations, ev_next)[assignments'[ev_next]]
C21_LoadsCharged == (total_cost' - total_cost) \div (C21_Distance * params.cost_per_km)
C21_CeilLoads ==
    C21_Assigned =>
        LET demand == customers_df[ev_next].Demand
            units == params.units_per_load
        IN  /\ total_cost' = total_cost
                               + C21_Distance * params.cost_per_km * CeilLoads(demand)
            /\ C21_Distance > 0 =>
                  /\ demand % units # 0 => C21_LoadsCharged = demand \div units + 1
                  /\ demand % units = 0 => C21_LoadsCharged * units = demand
                  /\ demand > 0 => C21_LoadsCharged >= 1
            /\ demand = 0 => total_cost' = total_cost
\* C21: an assigned customer is charged ceil(demand / units_per_load) loads: a
\* demand that is no exact multiple of units_per_load is charged the next
\* whole load, a positive demand at least one load, and a zero demand no load
\* and so no transport cost.
C21_LoadsRoundUp == [][C21_CeilLoads]_vars
\* a demand of one load and a half, carried over a distance, was charged two
\* loads
C21_Witness ==
    /\ ev_pc = "customers" /\ ev_next = 2
    /\ assignments[1] # NoFacility
    /\ customers_df[1].Demand = 60 /\ params.units_per_load = 40
    /\ Distances(facility_locations, 1)[assignments[1]] > 0
    /\ total_cost = 2 * params.cost_per_km * Distances(facility_locations, 1)[assignments[1]]
\* the other cases: an exact multiple, and a zero demand carried a distance
C21_ExactMultiple ==
    /\ ev_pc = "customers" /\ ev_next = 2 /\ assignments[1] # NoFacility
    /\ customers_df[1].Demand = 40 /\ params.units_per_load = 40
    /\ total_cost = params.cost_per_km * Distances(facility_locations, 1)[assignments[1]]
    /\ total_cost > 0
C21_ZeroDemand ==
    /\ ev_pc = "customers" /\ ev_next = 2 /\ assignments[1] # NoFacility
    /\ customers_df[1].Demand = 0
    /\ Distances(facility_locations, 1)[assignments[1]] > 0
    /\ total_cost = 0

\* the floor of line 164, in thousandths
C22_Floor == (4 * Milli) \div 10
C22_Started == pc \in {"loop", "sweep", "final", "done"}
\* line 120 and line 164, whatever inertia_weight is
C22_Decay ==
    /\ (pc = "start" /\ pc' # "start") => current_inertia_weight' = params.inertia_weight
    /\ (C22_Started /\ iteration' = iteration) =>
          current_inertia_weight' = current_inertia_weight
    /\ (C22_Started /\ iteration' # iteration) =>
          /\ current_inertia_weight' >= C22_Floor
          /\ current_inertia_weight' >= (current_inertia_weight * 99) \div 100
          /\ current_inertia_weight' \in {C22_Floor, (current_inertia_weight * 99) \div 100}
C22_NonIncreasing ==
    C22_Started => current_inertia_weight' <= current_inertia_weight
C22_AboveFloor ==
    C22_Started => current_inertia_weight >= C22_Floor
\* C22 as stated: for every configured inertia_weight the working weight
\* starts at inertia_weight, becomes max(0.4, 0.99 x previous) after each
\* completed iteration, never rises and is never below 0.4.
C22_DecaysForEveryWeight ==
    /\ [][C22_Decay]_vars
    /\ [][C22_NonIncreasing]_vars
    /\ [](C22_AboveFloor)
\* C22 amended: the working weight starts at inertia_weight and becomes
\* max(0.4, 0.99 x previous) after each completed iteration; when the
\* configured inertia_weight is at least 0.4 it never rises and is never
\* below 0.4; a configured weight below 0.4 starts below the floor and the
\* first completed iteration raises it to 0.4.
C22_DecaysFromFloorUp ==
    /\ [][C22_Decay]_vars
    /\ [][params.inertia_weight >= C22_Floor => C22_NonIncreasing]_vars
    /\ [](params.inertia_weight >= C22_Floor => C22_AboveFloor)
    /\ []((C22_Started /\ iteration >= 1) => current_inertia_weight >= C22_Floor)
    /\ []((C22_Started /\ iteration >= 1 /\ params.inertia_weight < C22_Floor) =>
              current_inertia_weight = C22_Floor)
\* two iterations completed and the weight decayed twice from 0.9
C22_Witness ==
    /\ pc = "done" /\ completed_iterations = 2
    /\ params.inertia_weight = 900
    /\ current_inertia_weight = 882
\* a weight configured on the floor stayed there, and one configured below
\* it was raised
C22_HeldAtFloor ==
    /\ pc = "done" /\ completed_iterations = 1
    /\ params.inertia_weight = C22_Floor /\ current_inertia_weight = C22_Floor
C22_Raised ==
    /\ pc = "done" /\ completed_iterations = 1
    /\ params.inertia_weight < C22_Floor /\ current_inertia_weight = C22_Floor

C23_OnePerIteration ==
    Running =>
        /\ Len(history) = completed_iterations
        /\ \A k \in 1..Len(history) : history[k].iteration = k - 1
        /\ pc = "done" => result.history = history
C23_Appended ==
    history' # history =>
        /\ pc = "sweep" /\ pc' = "loop"
        /\ completed_iterations' = completed_iterations + 1
        /\ history' = Append(history, [iteration |-> iteration,
                                       best_score |-> global_best_score',
                                       time |-> now])
\* the variables of the swarm that a step leaves alone
C23_SwarmKept(kept) == kept' = kept
\* what a step does to the swarm, stated without the history: the loop head
C23_LoopHead ==
    pc = "loop" =>
        /\ pc' = IF \/ iteration >= params.n_iterations
                    \/ now > params.max_run_time_seconds
                 THEN "final" ELSE "sweep"
        /\ C23_SwarmKept(<<particles, velocities, personal_best_positions,
                           personal_best_scores, global_best_view, global_best_copy,
                           global_best_score, current_inertia_weight, iteration, now>>)
\* ... the update of particle i
C23_Update ==
    (pc = "sweep" /\ i <= params.n_particles) =>
        /\ pc' = "sweep" /\ i' = i + 1
        /\ \A f \in 1..params.n_facilities :
              /\ \A d \in 1..2 :
                    velocities'[i][f][d] \in
                        {NewVelocity(velocities[i][f][d], particles[i][f][d],
                                     personal_best_positions[i][f][d],
                                     global_best_position[f][d], u1, u2) :
                            u1 \in RandHalves, u2 \in RandHalves}
              /\ particles'[i][f] = ClipPoint(<<particles[i][f][1] + velocities'[i][f][1],
                                               particles[i][f][2] + velocities'[i][f][2]>>)
        /\ LET score == calculate_total_cost(particles'[i]).total_cost
           IN  IF score < personal_best_scores[i]
               THEN /\ personal_best_scores'[i] = score
                    /\ personal_best_positions'[i] = particles'[i]
               ELSE /\ personal_best_scores'[i] = personal_best_scores[i]
                    /\ personal_best_positions'[i] = personal_best_positions[i]
        /\ \A k \in 1..params.n_particles \ {i} :
              C23_SwarmKept(<<particles[k], velocities[k], personal_best_positions[k],
                              personal_best_scores[k]>>)
        /\ C23_SwarmKept(<<global_best_view, global_best_copy, global_best_score,
                           current_inertia_weight, iteration>>)
\* ... the aggregation after the sweep
C23_Aggregate ==
    (pc = "sweep" /\ i > params.n_particles) =>
        /\ pc' = "loop" /\ iteration' = iteration + 1
        /\ global_best_score' = Min2(global_best_score, MinOfSeq(personal_best_scores))
        /\ global_best_position' =
              IF MinOfSeq(personal_best_scores) < global_best_score
              THEN personal_best_positions[ArgMin(personal_best_scores)]
              ELSE global_best_position
        /\ current_inertia_weight' = Max2(C22_Floor, (current_inertia_weight * 99) \div 100)
        /\ C23_SwarmKept(<<particles, velocities, personal_best_positions,
                           personal_best_scores, now>>)
\* ... and the return
C23_Return ==
    pc = "final" =>
        /\ pc' = "done"
        /\ result'.total_cost = calculate_total_cost(global_best_position).total_cost
        /\ C23_SwarmKept(<<particles, velocities, personal_best_positions,
                           personal_best_scores, global_best_view, global_best_copy,
                           global_best_score, current_inertia_weight, iteration>>)
\* the loop head and the aggregation wait for nothing: their step is there
\* whatever the history is
C23_NotHeld == C5_CanStep

C24_OverBudget == now > params.max_run_time_seconds
\* a started iteration goes on, over budget or not
C24_SweepGoesOn ==
    pc = "sweep" =>
        /\ checked_at' = checked_at
        /\ i <= params.n_particles =>
              /\ pc' = "sweep" /\ i' = i + 1
              /\ iteration' = iteration /\ history' = history
        /\ i > params.n_particles =>
              /\ pc' = "loop" /\ iteration' = iteration + 1
              /\ completed_iterations' = iteration + 1
              /\ Len(history') = Len(history) + 1
              /\ current_inertia_weight' = DecayedInertia(current_inertia_weight)
\* the time is looked at by the loop head only, when an iteration is due
C24_CheckedAtLoopHead ==
    checked_at' # checked_at => (pc = "loop" /\ iteration < params.n_iterations)
\* outside a sweep every iteration begun has been applied in full
C24_NothingPartial ==
    /\ pc = "sweep" => /\ i \in 1..(params.n_particles + 1)
                       /\ checked_at <= params.max_run_time_seconds
    /\ (pc \in {"loop", "final", "done"} /\ iteration >= 1) =>
          /\ i = params.n_particles + 1
          /\ Len(history) = iteration /\ completed_iterations = iteration
\* C24: the time budget is checked once, at the start of each iteration: an
\* iteration that has started updates all n_particles particles, aggregates
\* the global best, decays the inertia and appends its record also when the
\* elapsed time exceeds max_run_time_seconds in the middle of it; no
\* iteration is left partially applied.
C24_NotPreemptible ==
    /\ [][C24_SweepGoesOn /\ C24_CheckedAtLoopHead]_vars
    /\ [](C24_NothingPartial)
    /\ []((pc = "sweep" /\ C24_OverBudget) => C5_CanStep)
\* the budget ran out in the middle of an iteration that had passed the time
\* check; the last particle was still moved and the iteration made its record
C24_Witness ==
    /\ pc = "loop" /\ iteration >= 1
    /\ checked_at <= params.max_run_time_seconds
    /\ history[iteration].time > params.max_run_time_seconds
    /\ particles[2] # initial_particles[2]
    /\ Cardinality(evaluated[2]) >= 2

\* lines 132-140 for one coordinate of particle i, with draws u1 and u2 (in
\* halves): the stored velocity enters the inertia term as it is
C25_Velocity(f, d, u1, u2) ==
    RoundDiv(current_inertia_weight * velocities[i][f][d], Milli)
      + (params.cognitive_coefficient * u1
           * (personal_best_positions[i][f][d] - particles[i][f][d])) \div 2
      + (params.social_coefficient * u2
           * (global_best_position[f][d] - particles[i][f][d])) \div 2
C25_Moved ==
    (pc = "sweep" /\ i <= params.n_particles) =>
        /\ \A f \in 1..params.n_facilities :
              /\ \A d \in 1..2 :
                    velocities'[i][f][d] \in
                        {C25_Velocity(f, d, u1, u2) : u1 \in RandHalves, u2 \in RandHalves}
              /\ particles'[i][f][1] = Clip(particles[i][f][1] + velocities'[i][f][1],
                                            lat_bounds[1], lat_bounds[2])
              /\ particles'[i][f][2] = Clip(particles[i][f][2] + velocities'[i][f][2],
                                            lon_bounds[1], lon_bounds[2])
        /\ \A k \in 1..params.n_particles \ {i} :
              /\ particles'[k] = particles[k]
              /\ velocities'[k] = velocities[k]
C25_OnlyInOwnUpdate ==
    \A k \in 1..Len(velocities) :
        (velocities'[k] # velocities[k] \/ particles'[k] # particles[k]) =>
            (pc = "sweep" /\ i = k)
\* C25: the clamp changes the position only: the velocity keeps the value the
\* velocity update computed, clamped or not, and that stored value is what the
\* particle's next update multiplies by the inertia; the update of particle i
\* changes no other particle's position or velocity.
C25_ClampKeepsVelocity == [][C25_Moved /\ C25_OnlyInOwnUpdate]_vars
\* the first particle was stopped at the edge of the box in the first
\* iteration and keeps a velocity that is not the way it went
C25_Witness ==
    /\ pc = "sweep" /\ i = 2 /\ iteration = 0
    /\ \E f \in 1..params.n_facilities :
          /\ ~InBox(<<initial_particles[1][f][1] + velocities[1][f][1],
                      initial_particles[1][f][2] + velocities[1][f][2]>>)
          /\ InBox(particles[1][f])
          /\ velocities[1][f] # <<particles[1][f][1] - initial_particles[1][f][1],
                                  particles[1][f][2] - initial_particles[1][f][2]>>
\* and a particle carries into its second update a velocity longer than the
\* box is wide
C25_UsedNext ==
    /\ pc = "sweep" /\ i = 2 /\ iteration = 1
    /\ \E f \in 1..params.n_facilities :
          Abs(velocities[1][f][2]) > lon_bounds[2] - lon_bounds[1]

\* the fitness of the position a particle was drawn at
C26_Fitness(k) == calculate_total_cost(initial_particles[k]).total_cost
\* the lowest-indexed of the particles with the lowest initial score
C26_Best ==
    CHOOSE k \in 1..params.n_particles :
        /\ \A j \in 1..params.n_particles : C26_Fitness(k) <= C26_Fitness(j)
        /\ \A j \in 1..(k - 1) : C26_Fitness(j) > C26_Fitness(k)
\* C26: after the initialization and before the first iteration every
\* particle's personal-best position is its initial position and its
\* personal-best score the fitness of that position, and the global best is
\* the position and the score of the particle with the lowest initial score,
\* the lowest-indexed one on ties.
C26_InitialBests ==
    (pc = "loop" /\ iteration = 0) =>
        /\ particles = initial_particles
        /\ \A k \in 1..params.n_particles :
              /\ personal_best_positions[k] = initial_particles[k]
              /\ personal_best_scores[k] = C26_Fitness(k)
        /\ global_best_score = C26_Fitness(C26_Best)
        /\ global_best_position = initial_particles[C26_Best]
        /\ global_best_view = C26_Best
        /\ history = <<>> /\ current_inertia_weight = params.inertia_weight
\* two particles drawn at different points with the same, lowest, score: the
\* global best is the first
C26_Witness ==
    /\ pc = "loop" /\ iteration = 0 /\ params.n_particles = 2
    /\ initial_particles[1] # initial_particles[2]
    /\ personal_best_scores[1] = personal_best_scores[2]
    /\ global_best_position = initial_particles[1]
\* and with the second particle strictly better, the global best is the second
C26_SecondBest ==
    /\ pc = "loop" /\ iteration = 0 /\ params.n_particles = 2
    /\ personal_best_scores[2] < personal_best_scores[1]
    /\ global_best_position = initial_particles[2]
    /\ global_best_score = personal_best_scores[2]

\* C27: at every iteration boundary and at the loop's exit global_best_score
\* is the fitness of global_best_position and the lowest personal-best score;
\* the total_cost returned, a new evaluation of the global-best position, is
\* the global-best score at the exit and, after at least one completed
\* iteration, the best_score of the last record.
C27_ScoreMatchesPosition ==
    /\ pc \in {"loop", "final", "done"} =>
          /\ global_best_score = calculate_total_cost(global_best_position).total_cost
          /\ global_best_score = MinOfSeq(personal_best_scores)
    /\ pc = "done" =>
          /\ result.total_cost = global_best_score
          /\ result.completed_iterations >= 1 =>
                result.total_cost = result.history[Len(result.history)].best_score
\* a run returned after its global best had been replaced by a better one
C27_Witness ==
    /\ pc = "done" /\ result.completed_iterations >= 1
    /\ global_best_view = 0
    /\ result.total_cost < MinOfSeq(InitialScores)
\* and a run returned whose global best is still the initial one, although
\* the particle that held it has moved to a worse position
C27_InitialBestKept ==
    /\ pc = "done" /\ result.completed_iterations >= 1
    /\ global_best_view # 0
    /\ particles[global_best_view] # personal_best_positions[global_best_view]
    /\ calculate_total_cost(particles[global_best_view]).total_cost > result.total_cost

-----------------------------------------------------------------------------
(* The session as a state machine.  Every interaction reruns the script of
   the current page, so every action ends with what its Results section
   shows.  An exception inside the try blocks of the hub and routing pages
   stores nothing and leaves the section as it was: it is no step. *)

InitPage ==
    /\ customers_df = <<>> /\ params = EmptyDict
    /\ OptIdle
    /\ EvIdle
    /\ PageIdle

\* the user picks another page in the sidebar: its widgets start from their defaults
VisitPage(p) ==
    /\ p # page
    /\ page' = p
    /\ uploaded_file' = "none"
    /\ page_params' = DefaultParams
    /\ rendered' = Script(p, "none", session_state, DefaultParams)
    /\ UNCHANGED <<session_state, stored_run>>
    /\ UNCHANGED <<customers_df, params, optVars, evVars>>

\* handle_file_upload: the uploader gets a workbook with the required sheets
\* ("valid"), one without ("invalid"), or is cleared ("none"); the sliders
\* are drawn only while dfs is not None
UploadFile(file) ==
    /\ page \in OptimizerPages
    /\ file # uploaded_file
    /\ uploaded_file' = file
    /\ page_params' = IF file = "valid" THEN page_params ELSE DefaultParams
    /\ rendered' = Script(page, file, session_state, page_params')
    /\ UNCHANGED <<page, session_state, stored_run>>
    /\ UNCHANGED <<customers_df, params, optVars, evVars>>

\* the n_iterations slider of the PSO page
MoveSlider(v) ==
    /\ page = PSOPage
    /\ uploaded_file = "valid"
    /\ v # page_params.n_iterations
    /\ page_params' = [page_params EXCEPT !.n_iterations = v]
    /\ rendered' = Script(page, uploaded_file, session_state, page_params')
    /\ UNCHANGED <<page, uploaded_file, session_state, stored_run>>
    /\ UNCHANGED <<customers_df, params, optVars, evVars>>

\* the "Run Optimization" button of an optimizer page, and the rerun it asks for
RunOptimization ==
    /\ page \in OptimizerPages
    /\ uploaded_file = "valid"
    /\ \E results \in RunResults(page, page_params) :
        /\ session_state' = [optimization_results |-> results, show_results |-> TRUE]
        /\ stored_run' = IF page = PSOPage
                         THEN [page |-> page, n_iterations |-> page_params.n_iterations]
                         ELSE [page |-> page]
    /\ rendered' = Script(page, uploaded_file, session_state', page_params)
    /\ UNCHANGED <<page, uploaded_file, page_params>>
    /\ UNCHANGED <<customers_df, params, optVars, evVars>>

NextPage ==
    \/ \E p \in Pages : VisitPage(p)
    \/ \E file \in {"none", "valid", "invalid"} : UploadFile(file)
    \/ \E v \in SliderValues : MoveSlider(v)
    \/ RunOptimization

SpecPage == InitPage /\ [][NextPage]_vars

\* the Results section of the PSO page shows a stored result
PSORendersStored == page = PSOPage /\ rendered.kind \in {"summary", "error"}

\* C28: whenever the Results section of the PSO page renders a stored result,
\* that result is one optimize_facility_locations_pso returned (it has the
\* keys completed_iterations and history and the status "Optimal"); a result
\* another page's run stored is neither rendered nor reported as a failure.
C28_OnlyOwnResults ==
    PSORendersStored =>
        /\ stored_run.page = PSOPage
        /\ {"completed_iterations", "history"} \subseteq DOMAIN session_state["optimization_results"]
        /\ session_state["optimization_results"]["status"] = "Optimal"
        /\ rendered.kind # "error"

\* the PSO page reports the routing page's successful run as a failure
C28_Witness ==
    /\ page = PSOPage
    /\ stored_run.page = "Vehicle_Routing"
    /\ rendered.kind = "error"
    /\ rendered.status = "SUCCESS"

\* the PSO page takes a location model's result for its own and dies reading it
C28_ForeignOptimal ==
    /\ page = PSOPage
    /\ stored_run.page = "Facility_Location_MILP"
    /\ rendered.kind = "summary"
    /\ rendered.raised

\* with results of its own run only, the section never reports a failure
C28_OwnNeverFails ==
    (PSORendersStored /\ stored_run.page = PSOPage) => rendered.kind = "summary"

\* C29: the "Completed Iterations x/y" metric of the PSO page shows the
\* stored run's completed_iterations against the n_iterations that run was
\* started with, so x <= y whenever it is shown.
C29_MetricOfStoredRun ==
    (page = PSOPage /\ rendered.metric # <<>>) =>
        /\ rendered.metric[1] = session_state["optimization_results"]["completed_iterations"]
        /\ rendered.metric[2] = stored_run.n_iterations
        /\ rendered.metric[1] <= rendered.metric[2]

\* the metric shows more completed iterations than iterations
C29_Witness ==
    /\ page = PSOPage
    /\ rendered.metric # <<>>
    /\ rendered.metric[1] > rendered.metric[2]

\* right after a run the metric is that run's
C29_FreshRun ==
    [][RunOptimization /\ page = PSOPage =>
          /\ rendered'.metric[2] = stored_run'.n_iterations
          /\ rendered'.metric[1] <= rendered'.metric[2]]_vars

====
